---- MODULE Spec2Model ----
(***************************************************************************)
(* A state-machine model of DungeonTracker (src/dungeontracker.js and the  *)
(* grid builder src/unnamed/part_000, i.e. dungeonGridSvg.js).             *)
(*                                                                         *)
(* The store `data` ({cells, rooms, meta}), the selection state and the    *)
(* staging set are the state; every event handler is one action that runs  *)
(* to completion (the runtime is single-threaded).                          *)
(*                                                                         *)
(* JavaScript strings that the code takes apart ("col,row" cell keys) are  *)
(* modelled as sequences of one-character strings, so that key(), split(), *)
(* Number() and Array.prototype.sort() are computed as the code computes   *)
(* them.  Other strings (colors, notes, room ids) are TLA+ strings.        *)
(***************************************************************************)
EXTENDS Integers, Sequences, FiniteSets, TLC

(* ------------------------------ bounds -------------------------------- *)

\* Grid dimensions (opts.COLS / opts.ROWS of createDungeonTracker).
COLS == 3
ROWS == 1
\* toggleStage stages a key while fewer than MaxStaged keys are staged.
MaxStaged == 3
\* createRoomFromStage is explored while meta.nextRoomId <= MaxRoomNo.
MaxRoomNo == 2
\* panel edits are explored while they leave at most MaxEdited attributes
\* different from their defaults.
MaxEdited == 1
\* Snapshots of the store (exported file, getState() object) the embedding
\* page keeps at a time.
MaxSnapshots == 1
\* isContiguous is checked on arrays of at most MaxKeys distinct keys with
\* coordinates in 0 .. MaxCoord.
MaxKeys == 4
MaxCoord == 2
\* The pointers: the mouse and MaxTouch fingers or pens.
MaxTouch == 3
\* Date.now() advances in steps of TickMs up to MaxNow (milliseconds since
\* the construction).
TickMs == 300
MaxNow == 600

(* ------------------------- JavaScript values -------------------------- *)

\* null and undefined (as values of string-typed fields).
Null == "null"
Undefined == "undefined"
\* null for a variable holding a "col,row" key; like null and "" it is falsy.
NoKey == <<>>
\* Number(s) of a string that is not a numeric literal.
NaN == 0 - 999999

\* JavaScript truthiness of a string-or-null value.
Truthy(v) == v \notin {Null, Undefined, ""}

DigitChars == <<"0", "1", "2", "3", "4", "5", "6", "7", "8", "9">>

\* UTF-16 code unit of the characters a key can hold (the order sort() uses).
CodeUnit(ch) ==
  CASE ch = "," -> 44
    [] ch = "-" -> 45
    [] OTHER -> 48 + (CHOOSE d \in 0..9 : DigitChars[d + 1] = ch)

RECURSIVE NatStr(_)
NatStr(n) ==
  IF n < 10 THEN <<DigitChars[n + 1]>>
  ELSE NatStr(n \div 10) \o <<DigitChars[(n % 10) + 1]>>

\* String(n), the template-literal conversion of an integer.
NumStr(n) == IF n < 0 THEN <<"-">> \o NatStr(-n) ELSE NatStr(n)

\* `${c},${r}`
keyString(c, r) == NumStr(c) \o <<",">> \o NumStr(r)

\* The coordinates the model ever builds a key from: the grid, the inputs of
\* the contiguity check, and their neighbours one step outside.
CoordRange == (0 - 1) .. (IF COLS > ROWS THEN (IF COLS > MaxCoord + 1 THEN COLS ELSE MaxCoord + 1)
                          ELSE (IF ROWS > MaxCoord + 1 THEN ROWS ELSE MaxCoord + 1))

\* keyString tabulated over CoordRange (evaluated once)
KeyTable == [cr \in CoordRange \X CoordRange |-> keyString(cr[1], cr[2])]

\* function key(c, r){ return `${c},${r}`; }
key(c, r) == KeyTable[<<c, r>>]

\* s.split(","): the parts of s between commas.
RECURSIVE split(_)
split(s) ==
  LET commas == {i \in 1..Len(s) : s[i] = ","}
  IN IF commas = {} THEN <<s>>
     ELSE LET i == CHOOSE j \in commas : \A j2 \in commas : j <= j2
          IN <<SubSeq(s, 1, i - 1)>> \o split(SubSeq(s, i + 1, Len(s)))

RECURSIVE DigitsVal(_)
DigitsVal(s) ==
  IF Len(s) = 0 THEN 0
  ELSE 10 * DigitsVal(SubSeq(s, 1, Len(s) - 1))
       + (CHOOSE d \in 0..9 : DigitChars[d + 1] = s[Len(s)])

IsDigits(s) == Len(s) > 0 /\ \A i \in 1..Len(s) : \E d \in 0..9 : DigitChars[d + 1] = s[i]

\* Number(s) for the strings split() yields here: "" is 0, an optionally
\* signed run of digits is its value, anything else NaN.
Number(s) ==
  IF Len(s) = 0 THEN 0
  ELSE IF IsDigits(s) THEN DigitsVal(s)
  ELSE IF s[1] = "-" /\ IsDigits(Tail(s)) THEN 0 - DigitsVal(Tail(s))
  ELSE NaN

\* const [c, r] = k.split(",").map(Number);  (a missing part destructures to
\* undefined, modelled as NaN: both make key() miss every cell)
splitNumbers(k) ==
  LET parts == split(k)
  IN <<Number(parts[1]), IF Len(parts) >= 2 THEN Number(parts[2]) ELSE NaN>>

\* splitNumbers tabulated over the keys of KeyTable (evaluated once)
SplitTable == [k \in {KeyTable[cr] : cr \in CoordRange \X CoordRange} |-> splitNumbers(k)]

splitKey(k) == SplitTable[k]

\* a < b in the order of Array.prototype.sort() without a comparator:
\* lexicographic by UTF-16 code unit.
RECURSIVE StrLess(_, _)
StrLess(a, b) ==
  IF Len(b) = 0 THEN FALSE
  ELSE IF Len(a) = 0 THEN TRUE
  ELSE IF CodeUnit(a[1]) # CodeUnit(b[1]) THEN CodeUnit(a[1]) < CodeUnit(b[1])
  ELSE StrLess(Tail(a), Tail(b))

RECURSIVE InsertSorted(_, _)
InsertSorted(x, s) ==
  IF Len(s) = 0 THEN <<x>>
  ELSE IF StrLess(x, s[1]) THEN <<x>> \o s
  ELSE <<s[1]>> \o InsertSorted(x, Tail(s))

\* a sort that leaves the order it is given
sortKeepOrder(keys) == keys

\* keys.slice().sort()
RECURSIVE sort(_)
sort(keys) ==
  IF Len(keys) = 0 THEN <<>>
  ELSE InsertSorted(keys[Len(keys)], sort(SubSeq(keys, 1, Len(keys) - 1)))

Range(s) == {s[i] : i \in 1..Len(s)}

(* -------------------- contiguity check (isContiguous) ------------------ *)

\* for (const n of neigh){ if (!set.has(n) || seen.has(n)) continue;
\*                         seen.add(n); q.push(n); }
RECURSIVE visitNeighbours(_, _, _, _)
visitNeighbours(neigh, q, seen, set) ==
  IF Len(neigh) = 0 THEN [q |-> q, seen |-> seen]
  ELSE IF Head(neigh) \notin set \/ Head(neigh) \in seen
       THEN visitNeighbours(Tail(neigh), q, seen, set)
       ELSE visitNeighbours(Tail(neigh), Append(q, Head(neigh)),
                            seen \cup {Head(neigh)}, set)

\* neighbours that leave out the vertical ones
neighboursSameRow(cur) ==
  LET cr == splitKey(cur)
  IN <<key(cr[1] + 1, cr[2]), key(cr[1] - 1, cr[2])>>

\* const [c, r] = cur.split(",").map(Number);
\* const neigh = [key(c+1, r), key(c-1, r), key(c, r+1), key(c, r-1)];
neighbours(cur) ==
  LET cr == splitKey(cur)
  IN <<key(cr[1] + 1, cr[2]), key(cr[1] - 1, cr[2]),
       key(cr[1], cr[2] + 1), key(cr[1], cr[2] - 1)>>

\* while (q.length){ const cur = q.shift(); ... }  -- returns `seen`.
\* (Each round's queue and seen-set are bound once, as values.)
RECURSIVE bfs(_, _, _)
bfs(q, seen, set) ==
  IF Len(q) = 0 THEN seen
  ELSE CHOOSE result \in
         {bfs(step.q, step.seen, set) :
            step \in {visitNeighbours(neighbours(Head(q)), Tail(q), seen, set)}} : TRUE

\* a contiguity check that accepts every array
isContiguousAlways(keys) == TRUE

isContiguous(keys) ==
  IF Len(keys) <= 1 THEN TRUE
  ELSE Cardinality(bfs(<<keys[1]>>, {keys[1]}, Range(keys))) = Cardinality(Range(keys))

(* ------------------------ viewport arithmetic -------------------------- *)

\* opts.SIZE, opts.GAP, opts.PAD (their defaults) and the zoom-in limit
SIZE == 18
GAP == 2
PAD == 18
maxZoom == 8

\* JavaScript numbers of the viewport are modelled as exact fractions
\* <<numerator, denominator>> in lowest terms with a positive denominator.
Abs(n) == IF n < 0 THEN 0 - n ELSE n

RECURSIVE GCD(_, _)
GCD(a, b) == IF b = 0 THEN a ELSE GCD(b, a % b)

Rat(n, d) ==
  CHOOSE q \in {<<(IF d < 0 THEN 0 - n ELSE n) \div g, Abs(d) \div g>> :
                  g \in {GCD(Abs(n), Abs(d))}} : TRUE

RInt(n) == <<n, 1>>
RAdd(p, q) == Rat(p[1] * q[2] + q[1] * p[2], p[2] * q[2])
RSub(p, q) == Rat(p[1] * q[2] - q[1] * p[2], p[2] * q[2])
RMul(p, q) == Rat(p[1] * q[1], p[2] * q[2])
\* p / q for q # 0
RDiv(p, q) == Rat(p[1] * q[2], p[2] * q[1])
RLe(p, q) == p[1] * q[2] <= q[1] * p[2]
RLt(p, q) == p[1] * q[2] < q[1] * p[2]
\* Math.max(p, q), Math.min(p, q)
RMax(p, q) == IF RLe(p, q) THEN q ELSE p
RMin(p, q) == IF RLe(p, q) THEN p ELSE q

\* computeBounds(): w = PAD*2 + COLS*SIZE + (COLS-1)*GAP, h likewise
\* (integers, so Math.ceil changes nothing)
gridW == RInt(PAD * 2 + COLS * SIZE + (COLS - 1) * GAP)
gridH == RInt(PAD * 2 + ROWS * SIZE + (ROWS - 1) * GAP)

\* const vbMinW = grid.w; const vbMaxW = grid.w / maxZoom; (h likewise)
vbMinW == gridW
vbMinH == gridH
vbMaxW == RDiv(gridW, RInt(maxZoom))
vbMaxH == RDiv(gridH, RInt(maxZoom))

\* function clamp(n, a, b) { return Math.max(a, Math.min(b, n)); }
clamp(n, a, b) == RMax(a, RMin(b, n))

\* a clampView that limits the origin before the size
clampViewOriginFirst(v) ==
  [x |-> clamp(v.x, RInt(0), RSub(gridW, v.w)), y |-> clamp(v.y, RInt(0), RSub(gridH, v.h)),
   w |-> clamp(v.w, vbMaxW, vbMinW), h |-> clamp(v.h, vbMaxH, vbMinH)]

\* a clampView that leaves the origin where it is
clampViewSizeOnly(v) ==
  [x |-> v.x, y |-> v.y, w |-> clamp(v.w, vbMaxW, vbMinW), h |-> clamp(v.h, vbMaxH, vbMinH)]

\* clampView() of a window v
clampView(v) ==
  CHOOSE r \in
    {[x |-> clamp(v.x, RInt(0), RSub(gridW, w)), y |-> clamp(v.y, RInt(0), RSub(gridH, h)),
      w |-> w, h |-> h] :
       w \in {clamp(v.w, vbMaxW, vbMinW)}, h \in {clamp(v.h, vbMaxH, vbMinH)}} : TRUE

\* let view = { x: 0, y: 0, w: grid.w, h: grid.h };
InitialView == [x |-> RInt(0), y |-> RInt(0), w |-> gridW, h |-> gridH]

(* ------------------------------ data model ----------------------------- *)

VARIABLES
  data,                  \* the store: [cells, rooms, meta]
  persisted,             \* localStorage item storageKey: <<>> (absent) or <<text>>
  editTarget,            \* "cell" | "room"
  selectedCellKey,       \* a key or NoKey
  selectedRect,          \* the selected <rect>, named by its key, or NoKey
  staged,                \* the staging Set (its keys)
  createRoomBtnDisabled, \* createRoomBtn.disabled
  file,                  \* the file doExport downloaded last: <<>> or <<text>>
  extState,              \* the object the embedding page got from getState
                         \* or passed to loadState last: <<>> or <<state>>
  aliased,               \* data.cells/rooms/meta are extState's own objects
  lastOp,                \* history: the handler that ran last and how it ended
  icKeys,                \* input array of the isContiguous check
  icResult,              \* its result: <<>> (not run) or <<boolean>>
  issued,                \* history: the numbers n of the ids Rn that
                         \* createRoomFromStage has handed out in this run
  preGroup,              \* history: for each cell createRoomFromStage grouped
                         \* in the store's present contents, its [c, icon, n]
                         \* just before that call
  hoverKey,              \* a key or NoKey
  view,                  \* the viewBox window: [x, y, w, h]
  pointers,              \* the Map of active pointers: id -> [x, y]
  gesture,               \* NoGesture (null) or the gesture descriptor
  blockClicksUntil,      \* the time until which tile clicks are ignored
  now                    \* Date.now(), counted from the construction

vars == <<data, persisted, editTarget, selectedCellKey, selectedRect, staged,
          createRoomBtnDisabled, file, extState, aliased, lastOp, icKeys, icResult,
          issued, preGroup, hoverKey, view, pointers, gesture, blockClicksUntil, now>>

\* the pan / pinch state
viewVars == <<view, pointers, gesture, blockClicksUntil, now>>

\* let gesture = null;
NoGesture == [mode |-> "none"]

\* { c: null, n: "", icon: "", roomId: null }
DefaultCell == [c |-> Null, n |-> "", icon |-> "", roomId |-> Null]

EmptyMap == [x \in {} |-> 0]

\* { cells:{}, rooms:{}, meta:{ nextRoomId: 1 } }
EmptyData == [cells |-> EmptyMap, rooms |-> EmptyMap, meta |-> [nextRoomId |-> 1]]

\* obj[k] = v
Put(f, k, v) == [x \in (DOMAIN f) \cup {k} |-> IF x = k THEN v ELSE f[x]]

\* delete obj[k]
Delete(f, k) == [x \in (DOMAIN f) \ {k} |-> f[x]]

\* The cells of the grid in the order buildSquareSvgGrid and rebuildAll visit
\* them: rows outside, columns inside.
GridCoords == [i \in 1..(COLS * ROWS) |-> <<(i - 1) % COLS, (i - 1) \div COLS>>]

\* rectByKey.set(`${c},${r}`, rect): the keys that have a rect
GridKeys == {keyString(GridCoords[i][1], GridCoords[i][2]) : i \in 1..(COLS * ROWS)}

\* grid.rectByKey.get(k) || null : a rect is named by its key.
rectForKey(k) == IF k \in GridKeys THEN k ELSE NoKey

\* the key under which ensureCell(c, r) of k's coordinates finds the cell
cellKeyOf(k) == LET cr == splitKey(k) IN key(cr[1], cr[2])

\* what ensureCell does to the record it finds (or creates) under key k:
\*   data.cells[k] ??= { c: null, n: "", icon: "", roomId: null };
\*   if (cell.icon === undefined) cell.icon = "";
\*   if (cell.roomId === undefined) cell.roomId = null;
ensuredCell(cells, k) ==
  [(IF k \in DOMAIN cells THEN cells[k] ELSE DefaultCell)
     EXCEPT !.icon = IF @ = Undefined THEN "" ELSE @,
            !.roomId = IF @ = Undefined THEN Null ELSE @]

ensureCell(d, c, r) == [d EXCEPT !.cells = Put(@, key(c, r), ensuredCell(@, key(c, r)))]

\* ensureCell for the coordinates a key splits into.
ensureKey(d, k) == [d EXCEPT !.cells = Put(@, cellKeyOf(k), ensuredCell(@, cellKeyOf(k)))]

\* A loop `for (const k of ks){ const [c, r] = k.split(",").map(Number);
\* ensureCell(c, r); }` over keys ks: every round touches only its own
\* cell, so the loop is one map over the cells.
ensureCells(cells, ks) ==
  [x \in (DOMAIN cells) \cup {cellKeyOf(k) : k \in ks} |->
     IF x \in {cellKeyOf(k) : k \in ks} THEN ensuredCell(cells, x) ELSE cells[x]]

\* The same loop with `const cell = ensureCell(c, r); cell.roomId = id;`
setRoomIds(cells, ks, id) ==
  [x \in (DOMAIN cells) \cup {cellKeyOf(k) : k \in ks} |->
     IF x \in {cellKeyOf(k) : k \in ks}
     THEN [ensuredCell(cells, x) EXCEPT !.roomId = id]
     ELSE cells[x]]

\* setVisual(rect, c, r) of the keys ks that have a rect: its only effect on
\* the store is ensureCell(c, r).
setVisualAll(d, ks) ==
  [d EXCEPT !.cells = ensureCells(@, {k \in ks : rectForKey(k) # NoKey})]

\* rebuildAll(): repaint every cell of the grid.
rebuildAll(d) == setVisualAll(d, {key(GridCoords[i][1], GridCoords[i][2]) : i \in 1..(COLS * ROWS)})

\* function roomById(id){ return id ? data.rooms[id] : null; } is not null
hasRoom(d, id) == Truthy(id) /\ id \in DOMAIN d.rooms

\* JSON.stringify of the store and JSON.parse of such a text.  The text of
\* an object lists its properties; a property whose value is undefined is
\* left out.  A parsed object reads a property it lacks as undefined, which
\* the model writes as the value Undefined.
CellFields == {"c", "n", "icon", "roomId"}

stringifyCell(cell) == [f \in {x \in CellFields : cell[x] # Undefined} |-> cell[f]]

parseCell(t) == [f \in CellFields |-> IF f \in DOMAIN t THEN t[f] ELSE Undefined]

stringify(d) ==
  [cells |-> [k \in DOMAIN d.cells |-> stringifyCell(d.cells[k])],
   rooms |-> d.rooms,
   meta |-> d.meta]

\* a property the text does not have is one the parsed object does not have
parse(text) ==
  [f \in DOMAIN text |->
     IF f = "cells" THEN [k \in DOMAIN text.cells |-> parseCell(text.cells[k])] ELSE text[f]]

\* save(): localStorage.setItem(storageKey, JSON.stringify(data))
save(d) == <<stringify(d)>>

\* getCurrentCell(): null without a selection, else ensureCell of it
getCurrentCell(d) == IF selectedCellKey = NoKey THEN d ELSE ensureKey(d, selectedCellKey)

\* getCurrentRoom() is not null (evaluated on the store getCurrentCell left)
hasCurrentRoom(d) ==
  /\ selectedCellKey # NoKey
  /\ hasRoom(d, d.cells[cellKeyOf(selectedCellKey)].roomId)

currentRoomId(d) == d.cells[cellKeyOf(selectedCellKey)].roomId

\* Array.from(staged): a Set lists its keys in insertion order; the model
\* keeps the keys only, and a handler may meet them in any order.
ArrayFrom(S) ==
  {s \in [1..Cardinality(S) -> S] : \A i, j \in 1..Cardinality(S) : s[i] = s[j] => i = j}

\* renderStageStatus(): createRoomBtn.disabled = !(n && contiguous)
renderStageStatus(keys) == ~(Len(keys) > 0 /\ isContiguous(keys))

(* ------------------------- input alphabets ---------------------------- *)

\* values the panel widgets deliver (colorEl never delivers an empty value)
Colors == {"#aa0000"}
Icons == {"", "X"}
NotesTexts == {"", "note"}
Names == {"", "Vault"}
Kinds == {"", "trap"}

RoomDefaultColor == "#3c6270"

\* `R${n}`
roomIdOf(n) == "R" \o ToString(n)

\* number of attributes that differ from their defaults, in the store or
\* in the remembered pre-grouping values (bounds the edits)
Edited(d, pre) ==
  Cardinality({<<k, a>> \in (DOMAIN d.cells) \X {"c", "icon", "n"} :
                 \/ d.cells[k][a] # DefaultCell[a]
                 \/ k \in DOMAIN pre /\ pre[k][a] # DefaultCell[a]})
  + Cardinality({<<id, a>> \in (DOMAIN d.rooms) \X {"c", "icon", "n", "name", "kind"} :
                 \/ a = "c" /\ d.rooms[id].c # RoomDefaultColor
                 \/ a = "icon" /\ d.rooms[id].icon # ""
                 \/ a = "n" /\ d.rooms[id].n # ""
                 \/ a = "name" /\ d.rooms[id].name # "Room " \o id
                 \/ a = "kind" /\ d.rooms[id].kind # "room"})

(* ------------------------------ operations ----------------------------- *)

\* the embedding page's state object after an in-place mutation of the store
extAfter(d2) == IF aliased THEN <<d2>> ELSE extState

Op(name, out) ==
  IF out \in {"ok", "failed", "cell_grouped", "invalid"}
  THEN [op |-> name, out |-> out]
  ELSE [op |-> "ui", out |-> ""]

\* createDungeonTracker(opts) with nothing stored: load() is null, and
\* buildSquareSvgGrid paints (setVisual) every cell.
InitTracker ==
  /\ data = rebuildAll(EmptyData)
  /\ persisted = <<>>
  /\ editTarget = "cell"
  /\ selectedCellKey = NoKey
  /\ selectedRect = NoKey
  /\ staged = {}
  /\ createRoomBtnDisabled = renderStageStatus(<<>>)
  /\ aliased = FALSE
  /\ lastOp = Op("init", "")
  /\ icKeys = <<>>
  /\ icResult = <<>>
  /\ issued = {}
  /\ preGroup = EmptyMap
  /\ hoverKey = NoKey

\* ... its viewport, with no pointer down
InitViewport ==
  /\ view = InitialView
  /\ pointers = EmptyMap
  /\ gesture = NoGesture
  /\ blockClicksUntil = 0
  /\ now = 0

\* ... and no file on disk, no state object held by the embedding page
Init ==
  /\ InitTracker
  /\ InitViewport
  /\ file = <<>>
  /\ extState = <<>>

\* selectCell(k, rect): the store, selection and edit target it leaves
selectCell(d, k, rect) ==
  [data |-> ensureKey(d, k), selectedCellKey |-> k, selectedRect |-> rect,
   editTarget |-> IF hasRoom(d, ensuredCell(d.cells, cellKeyOf(k)).roomId)
                  THEN "room" ELSE "cell"]

\* toggleStage(k)
ToggleStage(k) ==
  /\ rectForKey(k) # NoKey
  /\ (k \in staged \/ Cardinality(staged) < MaxStaged)
  /\ \E d2 \in {IF k \in staged THEN ensureKey(data, k) ELSE data},
        st2 \in {IF k \in staged THEN staged \ {k} ELSE staged \cup {k}} :
       /\ staged' = st2
       /\ data' = d2
       /\ extState' = extAfter(d2)
       /\ \E keys \in ArrayFrom(st2) : createRoomBtnDisabled' = renderStageStatus(keys)
  /\ lastOp' = Op("ui", "")
  /\ UNCHANGED <<persisted, editTarget, selectedCellKey, selectedRect, file, aliased,
                 icKeys, icResult, hoverKey, viewVars, issued, preGroup>>

\* onCellClick(c, r, rect) without shift: selectCell(k, rect)
SelectClick(k) ==
  /\ \E s \in {selectCell(data, k, rectForKey(k))} :
       /\ data' = s.data
       /\ extState' = extAfter(s.data)
       /\ selectedCellKey' = s.selectedCellKey
       /\ selectedRect' = s.selectedRect
       /\ editTarget' = s.editTarget
  /\ lastOp' = Op("ui", "")
  /\ UNCHANGED <<persisted, staged, createRoomBtnDisabled, file, aliased, icKeys, icResult, hoverKey, viewVars, issued, preGroup>>

\* an onCellClick without its first line
OnCellClickUnblocked ==
  \E k \in GridKeys, shiftKey \in BOOLEAN :
    IF shiftKey THEN ToggleStage(k) ELSE SelectClick(k)

\* onCellClick: a click on the rect of a grid cell, with or without Shift
OnCellClick ==
  \E k \in GridKeys, shiftKey \in BOOLEAN :
    IF now < blockClicksUntil
    THEN /\ lastOp' = [op |-> "click", out |-> "blocked"]
         /\ UNCHANGED <<data, persisted, editTarget, selectedCellKey, selectedRect, staged,
                        createRoomBtnDisabled, file, extState, aliased, icKeys, icResult,
                        hoverKey, viewVars, issued, preGroup>>
    ELSE IF shiftKey THEN ToggleStage(k) ELSE SelectClick(k)

\* anyInRoom(keys): the roomId of the first cell, in the order of keys, that
\* has a truthy one, else null
anyInRoom(d, keys) ==
  LET hits == {i \in 1..Len(keys) : Truthy(ensuredCell(d.cells, cellKeyOf(keys[i])).roomId)}
  IN IF hits = {} THEN Null
     ELSE d.cells[cellKeyOf(keys[CHOOSE i \in hits : \A j \in hits : i <= j])].roomId

\* an anyInRoom that ungroups the cells it visits
anyInRoomReleased(d, keys) ==
  [d EXCEPT !.cells = setRoomIds(@, Range(keys), Null)]

\* the cells anyInRoom(keys) has passed to ensureCell when it returns
anyInRoomEnsured(d, keys) ==
  LET hits == {i \in 1..Len(keys) : Truthy(ensuredCell(d.cells, cellKeyOf(keys[i])).roomId)}
  IN [d EXCEPT !.cells =
        ensureCells(@, {keys[i] : i \in {j \in 1..Len(keys) : \A h \in hits : j <= h}})]

\* a room record that lists only the first staged key
newRoomFirstOnly(id, keys) ==
  [id |-> id, name |-> "Room " \o id, kind |-> "room", c |-> RoomDefaultColor,
   n |-> "", icon |-> "", cells |-> <<keys[1]>>]

\* the room record createRoomFromStage builds
newRoom(id, keys) ==
  [id |-> id, name |-> "Room " \o id, kind |-> "room", c |-> RoomDefaultColor,
   n |-> "", icon |-> "", cells |-> sort(keys)]

\* a commit that leaves the counter where it was
commitRoomSameCounter(d, keys) ==
  [d EXCEPT !.rooms = Put(@, roomIdOf(d.meta.nextRoomId),
                          newRoom(roomIdOf(d.meta.nextRoomId), keys)),
            !.cells = setRoomIds(@, Range(keys), roomIdOf(d.meta.nextRoomId))]

\* const id = `R${data.meta.nextRoomId++}`; data.rooms[id] = room;
\* for (const k of room.cells){ const cell = ensureCell(c, r); cell.roomId = id; }
commitRoom(d, keys) ==
  [d EXCEPT !.meta.nextRoomId = @ + 1,
            !.rooms = Put(@, roomIdOf(d.meta.nextRoomId),
                          newRoom(roomIdOf(d.meta.nextRoomId), keys)),
            !.cells = setRoomIds(@, Range(keys), roomIdOf(d.meta.nextRoomId))]

\* createRoomFromStage() up to its save(): how it ends and the store it leaves
\* createRoomFromStage with `data.meta.nextRoomId++` taken before the checks
createRoomFromStageIdFirst(d, keys) ==
  IF Len(keys) = 0 THEN [out |-> "empty", data |-> [d EXCEPT !.meta.nextRoomId = @ + 1]]
  ELSE IF ~isContiguous(keys)
       THEN [out |-> "not_contiguous", data |-> [d EXCEPT !.meta.nextRoomId = @ + 1]]
  ELSE IF Truthy(anyInRoom(d, keys))
       THEN [out |-> "already_grouped",
             data |-> [anyInRoomEnsured(d, keys) EXCEPT !.meta.nextRoomId = @ + 1]]
       ELSE [out |-> "ok", data |-> commitRoom(anyInRoomEnsured(d, keys), keys)]

createRoomFromStage(d, keys) ==
  IF Len(keys) = 0 THEN [out |-> "empty", data |-> d]
  ELSE IF ~isContiguous(keys) THEN [out |-> "not_contiguous", data |-> d]
  ELSE IF Truthy(anyInRoom(d, keys))
       THEN [out |-> "already_grouped", data |-> anyInRoomEnsured(d, keys)]
       ELSE [out |-> "ok", data |-> commitRoom(anyInRoomEnsured(d, keys), keys)]

\* a cell's own attributes
attrsOf(cell) == [c |-> cell.c, icon |-> cell.icon, n |-> cell.n]

\* createRoomFromStage(), whole
CreateRoom ==
  \E keys \in ArrayFrom(staged) :
  \E res \in {createRoomFromStage(data, keys)} :
     /\ res.out = "ok" => data.meta.nextRoomId <= MaxRoomNo
     /\ lastOp' = Op("createRoom", IF res.out = "ok" THEN "ok" ELSE "failed")
     /\ IF res.out # "ok"
        THEN /\ data' = res.data
             /\ extState' = extAfter(res.data)
             /\ UNCHANGED <<persisted, editTarget, selectedCellKey, selectedRect, staged,
                            createRoomBtnDisabled, issued, preGroup>>
        ELSE \E firstK \in {res.data.rooms[roomIdOf(data.meta.nextRoomId)].cells[1]} :
             \E s \in {IF rectForKey(firstK) # NoKey
                       THEN selectCell(setVisualAll(res.data, staged), firstK,
                                       rectForKey(firstK))
                       ELSE [data |-> setVisualAll(res.data, staged),
                             selectedCellKey |-> selectedCellKey,
                             selectedRect |-> selectedRect, editTarget |-> editTarget]} :
                /\ persisted' = save(res.data)
                /\ staged' = {}
                /\ createRoomBtnDisabled' = renderStageStatus(<<>>)
                /\ data' = s.data
                /\ extState' = extAfter(s.data)
                /\ selectedCellKey' = s.selectedCellKey
                /\ selectedRect' = s.selectedRect
                /\ editTarget' = "room"
                /\ issued' = issued \cup {data.meta.nextRoomId}
                /\ preGroup' = [k \in (DOMAIN preGroup) \cup {cellKeyOf(x) : x \in staged} |->
                                  IF k \in {cellKeyOf(x) : x \in staged}
                                  THEN attrsOf(ensuredCell(data.cells, k))
                                  ELSE preGroup[k]]
     /\ UNCHANGED <<file, aliased, icKeys, icResult, hoverKey, viewVars>>

\* createRoomBtn "click" listener
CreateRoomBtnClick == CreateRoom

\* keydown "Enter": if (!createRoomBtn.disabled) createRoomFromStage();
KeydownEnter ==
  /\ ~createRoomBtnDisabled
  /\ CreateRoom

\* dissolveRoom that deletes the room record and leaves the members' roomId
dissolveRoomKeepIds(d, roomId) ==
  IF ~hasRoom(d, roomId) THEN d ELSE [d EXCEPT !.rooms = Delete(@, roomId)]

\* dissolveRoom(roomId) up to its save(): the store it leaves
\*   for (const k of room.cells){ const cell = ensureCell(c, r); cell.roomId = null; }
\*   delete data.rooms[roomId];
dissolveRoom(d, roomId) ==
  IF ~hasRoom(d, roomId) THEN d
  ELSE [d EXCEPT !.cells = setRoomIds(@, Range(d.rooms[roomId].cells), Null),
                 !.rooms = Delete(@, roomId)]

\* dissolveRoomBtn "click" listener: how it ends and the store it leaves
dissolveClick(d, confirmed) ==
  IF ~hasCurrentRoom(getCurrentCell(d)) THEN [out |-> "no_room", data |-> getCurrentCell(d)]
  ELSE IF ~confirmed THEN [out |-> "declined", data |-> getCurrentCell(d)]
  ELSE [out |-> "ok",
        data |-> dissolveRoom(getCurrentCell(d),
                              d.rooms[currentRoomId(getCurrentCell(d))].id)]

\* a deleteCurrentRoom that also restarts the id counter
deleteCurrentRoomResetting(d, confirmed) ==
  IF ~hasCurrentRoom(getCurrentCell(d)) THEN [out |-> "no_room", data |-> getCurrentCell(d)]
  ELSE IF ~confirmed THEN [out |-> "declined", data |-> getCurrentCell(d)]
  ELSE [out |-> "ok",
        data |-> [dissolveRoom(getCurrentCell(d), currentRoomId(getCurrentCell(d)))
                    EXCEPT !.meta.nextRoomId = 1]]

\* deleteCurrentRoom(): how it ends and the store it leaves
deleteCurrentRoom(d, confirmed) ==
  IF ~hasCurrentRoom(getCurrentCell(d)) THEN [out |-> "no_room", data |-> getCurrentCell(d)]
  ELSE IF ~confirmed THEN [out |-> "declined", data |-> getCurrentCell(d)]
  ELSE [out |-> "ok",
        data |-> dissolveRoom(getCurrentCell(d),
                              d.rooms[currentRoomId(getCurrentCell(d))].id)]

\* the common end of the dissolve and delete buttons' handlers
RemoveRoom(name, res) ==
  /\ lastOp' = Op(name, res.out)
  /\ data' = res.data
  /\ extState' = extAfter(res.data)
  /\ IF res.out = "ok"
     THEN /\ persisted' = save(res.data)
          /\ editTarget' = "cell"
          /\ preGroup' = [k \in {x \in DOMAIN preGroup : Truthy(res.data.cells[x].roomId)} |->
                            preGroup[k]]
     ELSE UNCHANGED <<persisted, editTarget, preGroup>>
  /\ UNCHANGED <<selectedCellKey, selectedRect, staged, createRoomBtnDisabled, file,
                 aliased, icKeys, icResult, hoverKey, viewVars, issued>>

DissolveRoomBtnClick ==
  \E confirmed \in BOOLEAN :
    \E res \in {dissolveClick(data, confirmed)} : RemoveRoom("dissolveRoom", res)

DeleteRoomBtnClick ==
  \E confirmed \in BOOLEAN :
    \E res \in {deleteCurrentRoom(data, confirmed)} : RemoveRoom("dissolveRoom", res)

\* applyColor(color) up to its save(): how it ends and the store it leaves
applyColor(d, color) ==
  IF selectedCellKey = NoKey \/ selectedRect = NoKey THEN [out |-> "no_selection", data |-> d]
  ELSE IF editTarget = "room"
       THEN IF ~hasCurrentRoom(getCurrentCell(d))
            THEN [out |-> "no_room", data |-> getCurrentCell(d)]
            ELSE [out |-> "room",
                  data |-> [getCurrentCell(d) EXCEPT
                              !.rooms[currentRoomId(getCurrentCell(d))].c = color]]
       ELSE [out |-> "cell",
             data |-> [getCurrentCell(d) EXCEPT !.cells[cellKeyOf(selectedCellKey)].c = color]]

\* applyIcon(icon)
applyIcon(d, icon) ==
  IF selectedCellKey = NoKey \/ selectedRect = NoKey THEN [out |-> "no_selection", data |-> d]
  ELSE IF editTarget = "room"
       THEN IF ~hasCurrentRoom(getCurrentCell(d))
            THEN [out |-> "no_room", data |-> getCurrentCell(d)]
            ELSE [out |-> "room",
                  data |-> [getCurrentCell(d) EXCEPT
                              !.rooms[currentRoomId(getCurrentCell(d))].icon =
                                 IF Truthy(icon) THEN icon ELSE ""]]
       ELSE [out |-> "cell",
             data |-> [getCurrentCell(d) EXCEPT
                         !.cells[cellKeyOf(selectedCellKey)].icon =
                            IF Truthy(icon) THEN icon ELSE ""]]

\* applyNotes(notes)
applyNotes(d, notes) ==
  IF selectedCellKey = NoKey THEN [out |-> "no_selection", data |-> d]
  ELSE IF editTarget = "room"
       THEN IF ~hasCurrentRoom(getCurrentCell(d))
            THEN [out |-> "no_room", data |-> getCurrentCell(d)]
            ELSE [out |-> "room",
                  data |-> [getCurrentCell(d) EXCEPT
                              !.rooms[currentRoomId(getCurrentCell(d))].n = notes]]
       ELSE [out |-> "cell",
             data |-> [getCurrentCell(d) EXCEPT !.cells[cellKeyOf(selectedCellKey)].n = notes]]

\* applyRoomName(name)
applyRoomName(d, name) ==
  IF ~hasCurrentRoom(getCurrentCell(d)) THEN [out |-> "no_room", data |-> getCurrentCell(d)]
  ELSE [out |-> "room",
        data |-> [getCurrentCell(d) EXCEPT
                    !.rooms[currentRoomId(getCurrentCell(d))].name =
                       IF Truthy(name) THEN name ELSE @]]

\* applyRoomKind(kind)
applyRoomKind(d, kind) ==
  IF ~hasCurrentRoom(getCurrentCell(d)) THEN [out |-> "no_room", data |-> getCurrentCell(d)]
  ELSE [out |-> "room",
        data |-> [getCurrentCell(d) EXCEPT
                    !.rooms[currentRoomId(getCurrentCell(d))].kind =
                       IF Truthy(kind) THEN kind ELSE "room"]]

\* the common end of the panel's edit handlers: save() when the edit was made
PanelEdit(name, res) ==
  /\ res.out # "no_selection"
  /\ Edited(res.data, preGroup) <= MaxEdited
  /\ lastOp' = Op(name, res.out)
  /\ data' = res.data
  /\ extState' = extAfter(res.data)
  /\ persisted' = IF res.out \in {"room", "cell"} THEN save(res.data) ELSE persisted
  /\ UNCHANGED <<editTarget, selectedCellKey, selectedRect, staged, createRoomBtnDisabled,
                 file, aliased, icKeys, icResult, hoverKey, viewVars, issued, preGroup>>

\* colorEl "input"
ApplyColor ==
  \E color \in Colors : \E res \in {applyColor(data, color)} : PanelEdit("applyColor", res)

\* iconEl "input"
ApplyIcon ==
  \E icon \in Icons : \E res \in {applyIcon(data, icon)} : PanelEdit("applyIcon", res)

\* notesEl "input"
ApplyNotes ==
  \E notes \in NotesTexts : \E res \in {applyNotes(data, notes)} : PanelEdit("applyNotes", res)

\* roomNameEl "input"
ApplyRoomName ==
  \E name \in Names : \E res \in {applyRoomName(data, name)} : PanelEdit("applyRoomName", res)

\* roomKindEl "change"
ApplyRoomKind ==
  \E kind \in Kinds : \E res \in {applyRoomKind(data, kind)} : PanelEdit("applyRoomKind", res)

\* clearSelectedCell without its check of cell.roomId
clearSelectedCellUnguarded(d) ==
  IF selectedCellKey = NoKey \/ selectedRect = NoKey THEN [out |-> "no_selection", data |-> d]
  ELSE [out |-> "ok",
        data |-> [getCurrentCell(d) EXCEPT
                    !.cells[cellKeyOf(selectedCellKey)].c = Null,
                    !.cells[cellKeyOf(selectedCellKey)].icon = "",
                    !.cells[cellKeyOf(selectedCellKey)].n = ""]]

\* clearSelectedCell() up to its save(): how it ends and the store it leaves
clearSelectedCell(d) ==
  IF selectedCellKey = NoKey \/ selectedRect = NoKey THEN [out |-> "no_selection", data |-> d]
  ELSE IF Truthy(getCurrentCell(d).cells[cellKeyOf(selectedCellKey)].roomId)
       THEN [out |-> "cell_grouped", data |-> getCurrentCell(d)]
       ELSE [out |-> "ok",
             data |-> [getCurrentCell(d) EXCEPT
                         !.cells[cellKeyOf(selectedCellKey)].c = Null,
                         !.cells[cellKeyOf(selectedCellKey)].icon = "",
                         !.cells[cellKeyOf(selectedCellKey)].n = ""]]

\* clearCellBtn "click"
ClearCellBtnClick ==
  \E res \in {clearSelectedCell(data)} :
     /\ res.out # "no_selection"
     /\ lastOp' = Op("clearCell", res.out)
     /\ data' = res.data
     /\ extState' = extAfter(res.data)
     /\ persisted' = IF res.out = "ok" THEN save(res.data) ELSE persisted
     /\ UNCHANGED <<editTarget, selectedCellKey, selectedRect, staged,
                    createRoomBtnDisabled, file, aliased, icKeys, icResult, hoverKey, viewVars, issued, preGroup>>

\* a click on a room's entry of the room list (renderRoomList's listener)
RoomListClick ==
  \E id \in DOMAIN data.rooms :
  \E k \in {IF Len(data.rooms[id].cells) > 0 THEN data.rooms[id].cells[1] ELSE NoKey} :
  \E s \in {IF rectForKey(k) # NoKey THEN selectCell(data, k, rectForKey(k))
            ELSE [data |-> data, selectedCellKey |-> selectedCellKey,
                  selectedRect |-> selectedRect, editTarget |-> editTarget]} :
       /\ data' = s.data
       /\ extState' = extAfter(s.data)
       /\ selectedCellKey' = s.selectedCellKey
       /\ selectedRect' = s.selectedRect
       /\ editTarget' = "room"
       /\ lastOp' = Op("ui", "")
       /\ UNCHANGED <<persisted, staged, createRoomBtnDisabled, file, aliased,
                      icKeys, icResult, hoverKey, viewVars, issued, preGroup>>

\* keydown "Escape": clearStage(), and room edit flips back to cell edit
KeydownEscape ==
  \E d2 \in {IF editTarget = "room" THEN getCurrentCell(setVisualAll(data, staged))
             ELSE setVisualAll(data, staged)} :
     /\ staged' = {}
     /\ createRoomBtnDisabled' = renderStageStatus(<<>>)
     /\ editTarget' = "cell"
     /\ data' = d2
     /\ extState' = extAfter(d2)
     /\ lastOp' = Op("ui", "")
     /\ UNCHANGED <<persisted, selectedCellKey, selectedRect, file, aliased,
                    icKeys, icResult, hoverKey, viewVars, issued, preGroup>>

\* the public clearStage()
ClearStageCall ==
  \E d2 \in {setVisualAll(data, staged)} :
     /\ staged' = {}
     /\ createRoomBtnDisabled' = renderStageStatus(<<>>)
     /\ data' = d2
     /\ extState' = extAfter(d2)
     /\ lastOp' = Op("ui", "")
     /\ UNCHANGED <<persisted, editTarget, selectedCellKey, selectedRect, file, aliased,
                    icKeys, icResult, hoverKey, viewVars, issued, preGroup>>

\* doExport(): JSON.stringify({ cols:COLS, rows:ROWS, data })
DoExport ==
  /\ file # <<>> \/ Len(file) + Len(extState) < MaxSnapshots
  /\ file' = <<[cols |-> COLS, rows |-> ROWS, data |-> stringify(data)]>>
  /\ lastOp' = Op("ui", "")
  /\ UNCHANGED <<data, persisted, editTarget, selectedCellKey, selectedRect, staged,
                 createRoomBtnDisabled, extState, aliased, icKeys, icResult, hoverKey, viewVars, issued, preGroup>>

\* if (!obj?.data?.cells || !obj?.data?.rooms) return alert("Invalid file.");
\* a check that forgets the rooms mapping
validBlobCellsOnly(obj) ==
  /\ "data" \in DOMAIN obj
  /\ "cells" \in DOMAIN obj.data

validBlob(obj) ==
  /\ "data" \in DOMAIN obj
  /\ "cells" \in DOMAIN obj.data
  /\ "rooms" \in DOMAIN obj.data

\* a replacement that always restarts the counter
replaceDataFreshMeta(src) ==
  [cells |-> src.cells, rooms |-> src.rooms, meta |-> [nextRoomId |-> 1]]

\* data.cells = src.cells; data.rooms = src.rooms;
\* data.meta = src.meta || { nextRoomId: 1 };
replaceData(src) ==
  [cells |-> IF "cells" \in DOMAIN src THEN src.cells ELSE Undefined,
   rooms |-> IF "rooms" \in DOMAIN src THEN src.rooms ELSE Undefined,
   meta |-> IF "meta" \in DOMAIN src THEN src.meta ELSE [nextRoomId |-> 1]]

\* doImport(file): JSON.parse(text) and what follows
ImportBlob(text) ==
  IF ~validBlob(text)
  THEN /\ lastOp' = Op("import", "invalid")
       /\ UNCHANGED <<data, persisted, editTarget, selectedCellKey, selectedRect, staged,
                      createRoomBtnDisabled, file, extState, aliased, icKeys, icResult, hoverKey, viewVars, issued, preGroup>>
  ELSE \E d1 \in {replaceData(parse(text.data))} :
          /\ lastOp' = Op("import", "ok")
          /\ persisted' = save(d1)
          /\ data' = setVisualAll(rebuildAll(d1), staged)
          /\ staged' = {}
          /\ createRoomBtnDisabled' = renderStageStatus(<<>>)
          /\ selectedCellKey' = NoKey
          /\ selectedRect' = NoKey
          /\ aliased' = FALSE
          /\ preGroup' = EmptyMap
          /\ UNCHANGED <<editTarget, file, extState, icKeys, icResult, hoverKey, viewVars, issued>>

\* importFileEl "change": the user picks the file doExport downloaded
DoImport ==
  /\ file # <<>>
  /\ ImportBlob(file[1])

\* doWipe()
DoWipe ==
  \E confirmed \in BOOLEAN :
    IF ~confirmed
    THEN /\ lastOp' = Op("wipe", "declined")
         /\ UNCHANGED <<data, persisted, editTarget, selectedCellKey, selectedRect, staged,
                        createRoomBtnDisabled, file, extState, aliased, icKeys, icResult, hoverKey, viewVars, issued, preGroup>>
    ELSE /\ lastOp' = Op("wipe", "ok")
         /\ persisted' = save(EmptyData)
         /\ data' = setVisualAll(rebuildAll(EmptyData), staged)
         /\ staged' = {}
         /\ createRoomBtnDisabled' = renderStageStatus(<<>>)
         /\ selectedCellKey' = NoKey
         /\ selectedRect' = NoKey
         /\ aliased' = FALSE
         /\ preGroup' = EmptyMap
         /\ UNCHANGED <<editTarget, file, extState, icKeys, icResult, hoverKey, viewVars, issued>>

\* getState(): JSON.parse(JSON.stringify(data)), a copy the caller keeps
GetState ==
  /\ extState # <<>> \/ Len(file) + Len(extState) < MaxSnapshots
  /\ extState' = <<parse(stringify(data))>>
  /\ aliased' = FALSE
  /\ lastOp' = Op("ui", "")
  /\ UNCHANGED <<data, persisted, editTarget, selectedCellKey, selectedRect, staged,
                 createRoomBtnDisabled, file, icKeys, icResult, hoverKey, viewVars, issued, preGroup>>

\* if (!state?.cells || !state?.rooms) return;
validState(state) == "cells" \in DOMAIN state /\ "rooms" \in DOMAIN state

\* loadState(state) of the object the caller holds; the store then shares
\* that object's cells, rooms and meta
LoadStateOf(state) ==
  IF ~validState(state)
  THEN /\ lastOp' = Op("loadState", "invalid")
       /\ UNCHANGED <<data, persisted, editTarget, selectedCellKey, selectedRect, staged,
                      createRoomBtnDisabled, file, extState, aliased, icKeys, icResult, hoverKey, viewVars, issued, preGroup>>
  ELSE \E d1 \in {replaceData(state)} :
       \E d2 \in {rebuildAll(d1)} :
          /\ lastOp' = Op("loadState", "ok")
          /\ persisted' = save(d1)
          /\ data' = d2
          /\ extState' = <<d2>>
          /\ aliased' = TRUE
          /\ preGroup' = EmptyMap
          /\ UNCHANGED <<editTarget, selectedCellKey, selectedRect, staged,
                         createRoomBtnDisabled, file, icKeys, icResult, hoverKey, viewVars, issued>>

LoadState ==
  /\ extState # <<>>
  /\ LoadStateOf(extState[1])

\* rect "mouseenter": onCellEnter(c, r, rect)
OnCellEnter ==
  \E i \in 1..(COLS * ROWS) :
    /\ hoverKey' = key(GridCoords[i][1], GridCoords[i][2])
    /\ lastOp' = Op("ui", "")
    /\ UNCHANGED <<data, persisted, editTarget, selectedCellKey, selectedRect, staged,
                   createRoomBtnDisabled, file, extState, aliased, icKeys, icResult,
                   viewVars, issued, preGroup>>

\* rect "mouseleave": onCellLeave(c, r, rect)
OnCellLeave ==
  \E i \in 1..(COLS * ROWS) :
  \E k \in {key(GridCoords[i][1], GridCoords[i][2])} :
  \E d1 \in {IF rectForKey(k) # selectedRect /\ k \notin staged
              THEN setVisualAll(data, {k}) ELSE data} :
    /\ hoverKey' = NoKey
    /\ data' = d1
    /\ extState' = extAfter(d1)
    /\ lastOp' = Op("ui", "")
    /\ UNCHANGED <<persisted, editTarget, selectedCellKey, selectedRect, staged,
                   createRoomBtnDisabled, file, aliased, icKeys, icResult,
                   viewVars, issued, preGroup>>

\* Files the user may have on disk that doExport did not write, as
\* JSON.parse reads them: without data, without data.cells, without
\* data.rooms, and one with both but no meta.
ForeignCells == [k \in {key(0, 0)} |-> [c |-> Null, n |-> "", icon |-> "", roomId |-> "R1"]]
ForeignRooms == [id \in {"R1"} |-> newRoom("R1", <<key(0, 0)>>)]

ForeignFiles ==
  {[cols |-> COLS, rows |-> ROWS],
   [cols |-> COLS, rows |-> ROWS, data |-> [rooms |-> ForeignRooms, meta |-> [nextRoomId |-> 2]]],
   [cols |-> COLS, rows |-> ROWS, data |-> [cells |-> ForeignCells, meta |-> [nextRoomId |-> 2]]],
   [cols |-> COLS, rows |-> ROWS, data |-> [cells |-> ForeignCells, rooms |-> ForeignRooms]]}

\* State objects the embedding page may pass to loadState
ForeignStates ==
  {[rooms |-> ForeignRooms, meta |-> [nextRoomId |-> 2]],
   [cells |-> [k \in DOMAIN ForeignCells |-> parseCell(ForeignCells[k])]],
   [cells |-> [k \in DOMAIN ForeignCells |-> parseCell(ForeignCells[k])], rooms |-> ForeignRooms]}

\* the tracker constructed where the user has one foreign file, or the
\* embedding page one foreign state object
InitIO ==
  /\ InitTracker
  /\ InitViewport
  /\ \/ file \in {<<f>> : f \in ForeignFiles} /\ extState = <<>>
     \/ file = <<>> /\ extState \in {<<st>> : st \in ForeignStates}

\* the handlers around import, loadState and wipe
NextIO ==
  \/ OnCellClick
  \/ OnCellEnter
  \/ OnCellLeave
  \/ CreateRoomBtnClick
  \/ DoImport
  \/ LoadState
  \/ DoWipe

SpecIO == InitIO /\ [][NextIO]_vars

\* the handlers that fill the store, and the snapshots
NextRound ==
  \/ OnCellClick
  \/ CreateRoomBtnClick
  \/ ApplyNotes
  \/ DoExport
  \/ DoImport
  \/ GetState
  \/ LoadState

SpecRound == Init /\ [][NextRound]_vars

(* --------------------------- pan and pinch ----------------------------- *)

\* svgEl.getBoundingClientRect(): where the page lays the svg out
SurfaceRect == [left |-> 8, top |-> 6, width |-> 80, height |-> 60]

\* the client positions a pointer event can report: the corners and the
\* centre of the surface's diagonal (their distances are whole numbers)
PointerSpots == {<<8, 6>>, <<48, 36>>, <<88, 66>>}

\* the same with the quarter points of the diagonal
FineSpots == PointerSpots \cup {<<28, 21>>, <<68, 51>>}

\* pointer 0 is the mouse, the last one a pen, the others fingers
PointerIds == 0..MaxTouch
pointerTypeOf(id) == IF id = 0 THEN "mouse" ELSE IF id = MaxTouch THEN "pen" ELSE "touch"

\* the events: e.pointerId, e.pointerType, e.clientX, e.clientY
PointerEvents ==
  {[pointerId |-> id, pointerType |-> pointerTypeOf(id), clientX |-> sp[1], clientY |-> sp[2]] :
     id \in PointerIds, sp \in PointerSpots}

\* the events of two fingers on the finer spots
PinchEvents ==
  {[pointerId |-> id, pointerType |-> "touch", clientX |-> sp[1], clientY |-> sp[2]] :
     id \in 1..2, sp \in FineSpots}

\* pointers.size
size(ps) == Cardinality(DOMAIN ps)

\* Array.from(pointers.values()); mid and dist do not depend on the order
values(ps) ==
  CHOOSE sq \in [1..size(ps) -> {ps[id] : id \in DOMAIN ps}] :
    \A id \in DOMAIN ps : \E i \in 1..size(ps) : sq[i] = ps[id]

\* Math.hypot(dx, dy) of whole dx, dy whose hypotenuse is whole
hypot(dx, dy) == CHOOSE d \in 0..(Abs(dx) + Abs(dy)) : d * d = dx * dx + dy * dy

\* dist(a, b), mid(a, b)
dist(a, b) == RInt(hypot(a.x - b.x, a.y - b.y))
mid(a, b) == [x |-> Rat(a.x + b.x, 2), y |-> Rat(a.y + b.y, 2)]

\* Math.max(1, r.width), Math.max(1, r.height)
rectW == RMax(RInt(1), RInt(SurfaceRect.width))
rectH == RMax(RInt(1), RInt(SurfaceRect.height))

\* svgUnitsPerPx() in the window v
svgUnitsPerPx(v) == [ux |-> RDiv(v.w, rectW), uy |-> RDiv(v.h, rectH)]

\* clientToSvg(clientX, clientY) in the window v (fractions of client units)
clientToSvg(v, clientX, clientY) ==
  [x |-> RAdd(v.x, RMul(RSub(clientX, RInt(SurfaceRect.left)), RDiv(v.w, rectW))),
   y |-> RAdd(v.y, RMul(RSub(clientY, RInt(SurfaceRect.top)), RDiv(v.h, rectH)))]

\* a pan descriptor that snapshots the whole canvas instead of the window
panGestureWholeCanvas(v, pt) == [mode |-> "pan", startView |-> InitialView, startPt |-> pt]

\* gesture = { mode: "pan", startView: { ...view }, startPt }
panGesture(v, pt) == [mode |-> "pan", startView |-> v, startPt |-> pt]

\* gesture = { mode: "pinch", startView, startDist, startMid, startMidSvg }
pinchGesture(v, ps) ==
  LET pts == values(ps)
      m == mid(pts[1], pts[2])
  IN [mode |-> "pinch", startView |-> v, startDist |-> dist(pts[1], pts[2]),
      startMid |-> m, startMidSvg |-> clientToSvg(v, m.x, m.y)]

\* what the pointer handlers leave alone
trackerVars ==
  <<data, persisted, editTarget, selectedCellKey, selectedRect, staged, createRoomBtnDisabled,
    file, extState, aliased, icKeys, icResult, issued, preGroup, hoverKey>>

\* the note a pointer handler leaves: whether the event was the mouse's
pointerOp(e) == IF e.pointerType = "mouse" THEN [op |-> "pointer", out |-> "mouse"] ELSE Op("ui", "")

\* onPointerDown(e); a pointer that is down does not go down again
pointerDown(e) ==
  /\ e.pointerId \notin DOMAIN pointers
  /\ lastOp' = pointerOp(e)
  /\ IF e.pointerType = "mouse"
     THEN UNCHANGED <<pointers, gesture>>
     ELSE \E ps \in {Put(pointers, e.pointerId, [x |-> e.clientX, y |-> e.clientY])} :
            /\ pointers' = ps
            /\ gesture' = IF size(ps) = 1 THEN panGesture(view, ps[e.pointerId])
                          ELSE IF size(ps) = 2 THEN pinchGesture(view, ps)
                          ELSE gesture
  /\ UNCHANGED <<view, blockClicksUntil, trackerVars>>

\* ... at the time of the event before
onPointerDown(e) == pointerDown(e) /\ UNCHANGED now

OnPointerDown == \E e \in PointerEvents : onPointerDown(e)

\* the PAN branch of onPointerMove: the window and the click cooldown
panWindow(g, v, cur) ==
  LET dxPx == cur.x - g.startPt.x
      dyPx == cur.y - g.startPt.y
      u == svgUnitsPerPx(v)
  IN clampView([v EXCEPT !.x = RSub(g.startView.x, RMul(RInt(dxPx), u.ux)),
                         !.y = RSub(g.startView.y, RMul(RInt(dyPx), u.uy))])

panMove(cur) ==
  LET dxPx == cur.x - gesture.startPt.x
      dyPx == cur.y - gesture.startPt.y
  IN [view |-> panWindow(gesture, view, cur),
      blockClicksUntil |-> IF dxPx * dxPx + dyPx * dyPx > 6 * 6
                           THEN now + 300 ELSE blockClicksUntil]

\* a pinch that resizes the start window about its own origin
pinchTargetAtOrigin(ps) ==
  LET pts == values(ps)
      scale == RDiv(gesture.startDist, RMax(RInt(1), dist(pts[1], pts[2])))
  IN [x |-> gesture.startView.x, y |-> gesture.startView.y,
      w |-> clamp(RMul(gesture.startView.w, scale), vbMaxW, vbMinW),
      h |-> clamp(RMul(gesture.startView.h, scale), vbMaxH, vbMinH)]

\* the window the PINCH branch assigns before updateView()
pinchTarget(ps) ==
  LET pts == values(ps)
      m == mid(pts[1], pts[2])
      d == dist(pts[1], pts[2])
      scale == RDiv(gesture.startDist, RMax(RInt(1), d))
      w == clamp(RMul(gesture.startView.w, scale), vbMaxW, vbMinW)
      h == clamp(RMul(gesture.startView.h, scale), vbMaxH, vbMinH)
      midPxX == RSub(m.x, RInt(SurfaceRect.left))
      midPxY == RSub(m.y, RInt(SurfaceRect.top))
  IN [x |-> RSub(gesture.startMidSvg.x, RMul(RDiv(midPxX, rectW), w)),
      y |-> RSub(gesture.startMidSvg.y, RMul(RDiv(midPxY, rectH), h)),
      w |-> w, h |-> h]

\* the PINCH branch of onPointerMove
pinchMove(ps) == [view |-> clampView(pinchTarget(ps)), blockClicksUntil |-> now + 400]

\* onPointerMove(e).  With two pointers the gesture is a pinch in every
\* reachable state; the branch is taken for that descriptor only.
onPointerMove(e) ==
  /\ lastOp' = pointerOp(e)
  /\ IF e.pointerId \notin DOMAIN pointers
     THEN UNCHANGED <<pointers, view, blockClicksUntil>>
     ELSE \E ps \in {Put(pointers, e.pointerId, [x |-> e.clientX, y |-> e.clientY])} :
            /\ pointers' = ps
            /\ IF gesture = NoGesture
               THEN UNCHANGED <<view, blockClicksUntil>>
               ELSE IF size(ps) = 1 /\ gesture.mode = "pan"
               THEN \E r \in {panMove(ps[e.pointerId])} :
                      view' = r.view /\ blockClicksUntil' = r.blockClicksUntil
               ELSE IF size(ps) = 2 /\ gesture.mode = "pinch"
               THEN \E r \in {pinchMove(ps)} :
                      view' = r.view /\ blockClicksUntil' = r.blockClicksUntil
               ELSE UNCHANGED <<view, blockClicksUntil>>
  /\ UNCHANGED <<gesture, now, trackerVars>>

OnPointerMove == \E e \in PointerEvents : onPointerMove(e)

\* an onPointerUp that keeps the descriptor it finds
gestureAfterUpKept(ps) == gesture

\* the descriptor onPointerUp leaves when the pointers ps remain
gestureAfterUp(ps) ==
  IF size(ps) = 0 THEN NoGesture
  ELSE IF size(ps) = 1 THEN panGesture(view, values(ps)[1])
  ELSE gesture

\* onPointerUp(e), the listener of "pointerup" and of "pointercancel"; a
\* finger or pen that ends was down, the mouse ends at any time
onPointerUp(e) ==
  /\ e.pointerType = "mouse" \/ e.pointerId \in DOMAIN pointers
  /\ lastOp' = pointerOp(e)
  /\ \E ps \in {Delete(pointers, e.pointerId)} :
       /\ pointers' = ps
       /\ gesture' = gestureAfterUp(ps)
  /\ UNCHANGED <<view, blockClicksUntil, now, trackerVars>>

OnPointerUp == \E e \in PointerEvents : onPointerUp(e)

OnPointerCancel == \E e \in PointerEvents : onPointerUp(e)

\* the pointer listeners of the svg
NextView ==
  \/ OnPointerDown
  \/ OnPointerMove
  \/ OnPointerUp
  \/ OnPointerCancel

SpecView == Init /\ [][NextView]_vars

(* --------------------------- taps and drags ---------------------------- *)

\* time passes between two events
Tick ==
  /\ now < MaxNow
  /\ now' = now + TickMs
  /\ UNCHANGED <<view, pointers, gesture, blockClicksUntil, lastOp, trackerVars>>

\* two fingers on the first corner of the surface, 5 px from it, and on
\* its centre
TapSpots == {<<8, 6>>, <<12, 9>>, <<48, 36>>}
TapEvents ==
  {[pointerId |-> id, pointerType |-> "touch", clientX |-> sp[1], clientY |-> sp[2]] :
     id \in 1..2, sp \in TapSpots}

\* a finger goes down TickMs after the event before
TapDown ==
  /\ now < MaxNow
  /\ now' = now + TickMs
  /\ \E e \in TapEvents : pointerDown(e)

TapMove == \E e \in TapEvents : onPointerMove(e)

TapUp == \E e \in TapEvents : onPointerUp(e)

\* the pointer listeners, the cell click and the clock
NextTap ==
  \/ TapDown
  \/ TapMove
  \/ TapUp
  \/ OnCellClick
  \/ Tick

SpecTap == Init /\ [][NextTap]_vars

(* ---------------------------- three fingers --------------------------- *)

\* Three fingers, each with two spots of its own on the diagonal of the
\* surface: the first near its start, the second before its middle, the
\* third near its end.  The midpoints of two fingers then tell which two
\* they are.
spotsOf(id) ==
  {<<8 + 4 * t, 6 + 3 * t>> : t \in {9 * (id - 1), 9 * (id - 1) + 2}}

ThreeEvents ==
  UNION {{[pointerId |-> id, pointerType |-> "touch", clientX |-> sp[1], clientY |-> sp[2]] :
            sp \in spotsOf(id)} : id \in 1..3}

\* the fingers go down before the first drag (every drag between these
\* spots starts the click cooldown)
ThreeDown ==
  /\ blockClicksUntil = 0
  /\ \E e \in ThreeEvents : onPointerDown(e)

ThreeMove == \E e \in ThreeEvents : onPointerMove(e)

ThreeUp == \E e \in ThreeEvents : onPointerUp(e)

NextThree ==
  \/ ThreeDown
  \/ ThreeMove
  \/ ThreeUp

SpecThree == Init /\ [][NextThree]_vars

(* ------------------------ a pinch, on its own -------------------------- *)

\* Windows a pinch can start on: the canvas shown whole, or a half, a
\* quarter or an eighth of it placed at the start, the middle or the end of
\* each axis.
StartWindows ==
  {[x |-> RMul(RSub(gridW, RDiv(gridW, RInt(z))), Rat(i, 2)),
    y |-> RMul(RSub(gridH, RDiv(gridH, RInt(z))), Rat(j, 2)),
    w |-> RDiv(gridW, RInt(z)), h |-> RDiv(gridH, RInt(z))] :
     z \in {1, 2, 4, maxZoom}, i \in 0..2, j \in 0..2}

\* the two fingers of a pinch, each on one of the finer spots
FingerPairs == [1..2 -> {[x |-> sp[1], y |-> sp[2]] : sp \in FineSpots}]

\* the second finger has just gone down on a window the user had panned
\* and zoomed to (a zoomed window has seen a pinch move before)
InitPinch ==
  /\ InitTracker
  /\ view \in StartWindows
  /\ pointers \in FingerPairs
  /\ gesture = pinchGesture(view, pointers)
  /\ blockClicksUntil = IF view = InitialView THEN 0 ELSE 400
  /\ now = 0
  /\ file = <<>>
  /\ extState = <<>>

\* a "pointermove" of one of the two fingers
FingerMove == \E e \in PinchEvents : onPointerMove(e)

NextPinch == FingerMove

SpecPinch == InitPinch /\ [][NextPinch]_vars

(* ------------------------ clampView, on its own ----------------------- *)

\* Windows a handler may have assigned before it calls updateView(): whole
\* coordinates and sizes below, inside and beyond the canvas.
WindowOrigins == {0 - 50, 0, 40, 90, 150}
WindowSizes == {0 - 5, 0, 10, 50, 94, 200}
BoundedWindows ==
  {[x |-> RInt(x), y |-> RInt(y), w |-> RInt(w), h |-> RInt(h)] :
     x \in WindowOrigins, y \in WindowOrigins, w \in WindowSizes, h \in WindowSizes}

InitClamp ==
  /\ InitTracker
  /\ view \in BoundedWindows
  /\ pointers = EmptyMap
  /\ gesture = NoGesture
  /\ blockClicksUntil = 0
  /\ now = 0
  /\ file = <<>>
  /\ extState = <<>>

\* updateView(): clampView() and the viewBox attribute
UpdateView ==
  /\ view' = clampView(view)
  /\ lastOp' = [op |-> "updateView", out |-> "ok"]
  /\ UNCHANGED <<pointers, gesture, blockClicksUntil, now, trackerVars>>

NextClamp == UpdateView

SpecClamp == InitClamp /\ [][NextClamp]_vars

\* the handlers that work on the store without a snapshot
NextStore ==
  \/ OnCellClick
  \/ CreateRoomBtnClick
  \/ KeydownEnter
  \/ DissolveRoomBtnClick
  \/ DeleteRoomBtnClick
  \/ ApplyColor
  \/ ApplyIcon
  \/ ApplyNotes
  \/ ApplyRoomName
  \/ ApplyRoomKind
  \/ ClearCellBtnClick
  \/ RoomListClick
  \/ KeydownEscape
  \/ ClearStageCall
  \/ DoWipe

Next ==
  \/ NextStore
  \/ OnCellEnter
  \/ OnCellLeave
  \/ DoExport
  \/ DoImport
  \/ GetState
  \/ LoadState
  \/ NextView

\* the handlers that change cell membership, rooms or the id counter, and
\* the snapshots
NextSnap ==
  \/ OnCellClick
  \/ CreateRoomBtnClick
  \/ DissolveRoomBtnClick
  \/ DoWipe
  \/ DoExport
  \/ DoImport
  \/ GetState
  \/ LoadState

SpecSnap == Init /\ [][NextSnap]_vars

SpecStore == Init /\ [][NextStore]_vars

Spec == Init /\ [][Next]_vars

(* ------------------ isContiguous as a function of its input ------------ *)

\* the keys `${c},${r}` with both coordinates in 0 .. MaxCoord
BoundedKeys == {key(c, r) : c \in 0..MaxCoord, r \in 0..MaxCoord}

\* the arrays of at most MaxKeys distinct bounded keys
KeyArrays ==
  UNION {{s \in [1..n -> BoundedKeys] : \A i, j \in 1..n : s[i] = s[j] => i = j} :
           n \in 0..MaxKeys}

InitContig ==
  /\ data = rebuildAll(EmptyData)
  /\ persisted = <<>>
  /\ editTarget = "cell"
  /\ selectedCellKey = NoKey
  /\ selectedRect = NoKey
  /\ staged = {}
  /\ createRoomBtnDisabled = renderStageStatus(<<>>)
  /\ file = <<>>
  /\ extState = <<>>
  /\ aliased = FALSE
  /\ lastOp = Op("init", "")
  /\ icKeys \in KeyArrays
  /\ icResult = <<>>
  /\ issued = {}
  /\ preGroup = EmptyMap
  /\ hoverKey = NoKey
  /\ view = InitialView
  /\ pointers = EmptyMap
  /\ gesture = NoGesture
  /\ blockClicksUntil = 0
  /\ now = 0

\* a call isContiguous(icKeys)
IsContiguousCall ==
  /\ icResult = <<>>
  /\ icResult' = <<isContiguous(icKeys)>>
  /\ UNCHANGED <<data, persisted, editTarget, selectedCellKey, selectedRect, staged,
                 createRoomBtnDisabled, file, extState, aliased, lastOp, icKeys,
                 issued, preGroup, hoverKey, viewVars>>

NextContig == IsContiguousCall

SpecContig == InitContig /\ [][NextContig]_vars

(* ------------------------------- claims -------------------------------- *)

\* two keys name cells that differ by exactly one unit on exactly one axis
Adjacent(a, b) ==
  LET p == splitKey(a)
      q == splitKey(b)
  IN \/ p[2] = q[2] /\ (p[1] - q[1] = 1 \/ q[1] - p[1] = 1)
     \/ p[1] = q[1] /\ (p[2] - q[2] = 1 \/ q[2] - p[2] = 1)

\* the keys of S joined to a key of R by a path of adjacent keys of S
RECURSIVE Closure(_, _)
Closure(R, S) ==
  IF \E b \in S \ R : \E a \in R : Adjacent(a, b)
  THEN Closure(R \cup {b \in S : \E a \in R : Adjacent(a, b)}, S)
  ELSE R

\* the adjacency graph on S has exactly one connected component
OneComponent(S) == S # {} /\ \A a \in S : Closure({a}, S) = S

\* C1: after any sequence of store operations, no cell's roomId names a
\* room id absent from the rooms mapping, and no cell key is in the member
\* lists of two different rooms.
C1_NoDanglingNoShared ==
  /\ \A k \in DOMAIN data.cells :
        Truthy(data.cells[k].roomId) => data.cells[k].roomId \in DOMAIN data.rooms
  /\ \A id1, id2 \in DOMAIN data.rooms :
        id1 # id2 => Range(data.rooms[id1].cells) \cap Range(data.rooms[id2].cells) = {}

\* C1 witness: an exported snapshot with two rooms has just been imported
C1_Witness ==
  /\ lastOp = Op("import", "ok")
  /\ Cardinality(DOMAIN data.rooms) = 2
  /\ \E k \in DOMAIN data.cells : Truthy(data.cells[k].roomId)

\* C2: in every reachable state, a cell record with non-null roomId R has
\* rooms[R] present, and rooms[R]'s member list contains the cell's key.
C2_RoomIdBacked ==
  \A k \in DOMAIN data.cells :
     Truthy(data.cells[k].roomId) =>
        /\ data.cells[k].roomId \in DOMAIN data.rooms
        /\ k \in Range(data.rooms[data.cells[k].roomId].cells)

\* C2 witness: a room of two cells exists and an attribute has been edited
C2_Witness ==
  /\ \E id \in DOMAIN data.rooms : Len(data.rooms[id].cells) = 2
  /\ \E k \in DOMAIN data.cells : Truthy(data.cells[k].roomId)
  /\ Edited(data, preGroup) = 1

\* C3: in every reachable state every room has at least one member cell and
\* its members form exactly one component under 4-neighbour adjacency.
C3_RoomsConnected ==
  \A id \in DOMAIN data.rooms :
     /\ Len(data.rooms[id].cells) >= 1
     /\ OneComponent(Range(data.rooms[id].cells))

\* C3 witness: a state object holding a three-cell room has just been loaded
C3_Witness ==
  /\ lastOp = Op("loadState", "ok")
  /\ \E id \in DOMAIN data.rooms : Len(data.rooms[id].cells) = 3

\* C4: isContiguous is true iff the set has at most one element or its
\* adjacency graph has exactly one component, and the result is the same
\* for every order of the same keys.
C4_IsContiguousExact ==
  icResult # <<>> =>
     /\ icResult[1] = (Cardinality(Range(icKeys)) <= 1 \/ OneComponent(Range(icKeys)))
     /\ \A other \in ArrayFrom(Range(icKeys)) : isContiguous(other) = icResult[1]

\* C4 witness: the check has accepted four keys whose first two are not adjacent
C4_Witness ==
  /\ icResult = <<TRUE>>
  /\ Len(icKeys) = 4
  /\ ~Adjacent(icKeys[1], icKeys[2])

\* the selected cell is grouped (its record carries a room id)
SelectedGrouped ==
  /\ selectedCellKey # NoKey
  /\ selectedRect # NoKey
  /\ Truthy(ensuredCell(data.cells, cellKeyOf(selectedCellKey)).roomId)

\* C5: whenever createRoom does not create a room (nothing staged, staged
\* keys not contiguous, or a staged cell already grouped), the cells and
\* rooms mappings after the call equal those before it, key sets included.
C5_FailedCreateKeepsStore ==
  [][lastOp' = Op("createRoom", "failed") =>
       /\ data'.cells = data.cells
       /\ DOMAIN data'.cells = DOMAIN data.cells
       /\ data'.rooms = data.rooms]_vars

\* C5 witness: createRoom has just refused a staged set holding a grouped cell
C5_Witness ==
  /\ lastOp = Op("createRoom", "failed")
  /\ \E k \in staged : Truthy(data.cells[k].roomId)
  /\ \E k \in staged : ~Truthy(data.cells[k].roomId)

\* C6: a colour, icon or notes edit applied to a cell record is a no-op
\* when that cell's roomId is non-null: its c, icon and n stay as they were.
C6_GroupedCellEditNoOp ==
  [][((ApplyColor \/ ApplyIcon \/ ApplyNotes) /\ editTarget = "cell" /\ SelectedGrouped) =>
       attrsOf(data'.cells[cellKeyOf(selectedCellKey)])
         = attrsOf(data.cells[cellKeyOf(selectedCellKey)])]_vars

\* C7: clearCell on the selected cell sets c to null and icon and n to
\* empty when the cell's roomId is null; when it is non-null the call fails
\* and leaves the cell record, the rooms mapping and the persisted state
\* unchanged.
C7_ClearCell ==
  [][lastOp'.op = "clearCell" =>
       /\ selectedCellKey # NoKey
       /\ lastOp'.out = (IF SelectedGrouped THEN "cell_grouped" ELSE "ok")
       /\ lastOp'.out = "ok" =>
             /\ data'.cells[cellKeyOf(selectedCellKey)].c = Null
             /\ data'.cells[cellKeyOf(selectedCellKey)].icon = ""
             /\ data'.cells[cellKeyOf(selectedCellKey)].n = ""
       /\ lastOp'.out = "cell_grouped" =>
             /\ data'.cells[cellKeyOf(selectedCellKey)] = data.cells[cellKeyOf(selectedCellKey)]
             /\ data'.rooms = data.rooms
             /\ persisted' = persisted]_vars

\* C7 witness: clearCell has just refused a grouped cell
C7_Witness ==
  /\ lastOp = Op("clearCell", "cell_grouped")
  /\ SelectedGrouped

\* C8: after dissolveRoom(R) every former member has roomId null, R is
\* absent from rooms, each former member's c, icon and n equal the values
\* it had just before R was created, and the other rooms and the
\* non-member cells are unchanged by the dissolve.
C8_DissolveRestores ==
  [][(lastOp' = Op("dissolveRoom", "ok") /\ SelectedGrouped) =>
       \A R \in {data.cells[cellKeyOf(selectedCellKey)].roomId} :
          /\ R \notin DOMAIN data'.rooms
          /\ \A id \in (DOMAIN data.rooms) \ {R} :
                id \in DOMAIN data'.rooms /\ data'.rooms[id] = data.rooms[id]
          /\ \A k \in DOMAIN data.cells :
                IF k \in Range(data.rooms[R].cells)
                THEN /\ data'.cells[k].roomId = Null
                     /\ k \in DOMAIN preGroup => attrsOf(data'.cells[k]) = preGroup[k]
                ELSE data'.cells[k] = data.cells[k]]_vars

\* C9: from a state with an existing (selected) room R, dissolving R and
\* confirmed deleting R give the same cells, rooms and room-id counter:
\* every step that removes a room leaves what both handlers compute.
C9_DissolveEqualsDelete ==
  [][(lastOp' = Op("dissolveRoom", "ok") /\ SelectedGrouped) =>
       /\ dissolveClick(data, TRUE).out = "ok"
       /\ deleteCurrentRoom(data, TRUE).out = "ok"
       /\ data' = dissolveClick(data, TRUE).data
       /\ data' = deleteCurrentRoom(data, TRUE).data]_vars

\* C9 witness: a two-cell room has just been removed while another remains
C9_Witness ==
  /\ lastOp = Op("dissolveRoom", "ok")
  /\ Cardinality(DOMAIN data.rooms) = 1
  /\ Cardinality({k \in DOMAIN data.cells : ~Truthy(data.cells[k].roomId)}) >= 2

\* C10 as stated: room ids are handed out in strictly increasing order and
\* an id once assigned is never assigned to a later-created room.
C10_IdsNeverReused ==
  [][lastOp' = Op("createRoom", "ok") =>
       \A n \in issued : n < data.meta.nextRoomId]_vars

\* C10 amended: each successful createRoom names the new room R<counter>
\* and raises the counter by one, and the counter goes down only by a wipe
\* (to 1) or by an import or loadState (to the snapshot's counter); ids are
\* increasing and unused only between such resets.
C10_IdsIncreaseBetweenResets ==
  [][/\ lastOp' = Op("createRoom", "ok") =>
          /\ DOMAIN data'.rooms = (DOMAIN data.rooms) \cup {roomIdOf(data.meta.nextRoomId)}
          /\ data'.meta.nextRoomId = data.meta.nextRoomId + 1
          /\ issued' = issued \cup {data.meta.nextRoomId}
     /\ data'.meta.nextRoomId < data.meta.nextRoomId =>
          \/ lastOp' = Op("wipe", "ok") /\ data'.meta.nextRoomId = 1
          \/ lastOp' = Op("import", "ok") /\ file # <<>>
                /\ data'.meta.nextRoomId = file[1].data.meta.nextRoomId
          \/ lastOp' = Op("loadState", "ok") /\ extState # <<>>
                /\ data'.meta.nextRoomId = extState[1].meta.nextRoomId]_vars

\* C10 witness: R1 has just been handed out again after R2 had been
C10_Witness ==
  /\ lastOp = Op("createRoom", "ok")
  /\ issued = {1, 2}
  /\ DOMAIN data.rooms = {roomIdOf(1)}
  /\ data.meta.nextRoomId = 2

(* C11: an import whose blob lacks data, data.cells or data.rooms, and a
   loadState whose object lacks cells or rooms, fails and leaves the cells,
   the rooms, the counter and the persisted state exactly as they were. *)
HasBoth(obj) == {"cells", "rooms"} \subseteq DOMAIN obj

C11_InvalidImportKeepsStore ==
  [][(\/ lastOp'.op = "import" /\ ~("data" \in DOMAIN file[1] /\ HasBoth(file[1].data))
      \/ lastOp'.op = "loadState" /\ ~HasBoth(extState[1]))
     => /\ lastOp'.out = "invalid"
        /\ data' = data
        /\ persisted' = persisted]_vars

\* an invalid file was refused while the store held a room and was saved
C11_Witness ==
  /\ lastOp = Op("import", "invalid")
  /\ DOMAIN data.rooms # {}
  /\ persisted # <<>>

(* C12: importing the file export has just written of the store, and
   loadState of the object getState has just returned of it, leave the
   cells (keys and attributes), the rooms (with their member keys) and the
   counter equal to what they were. *)
C12_ExportImportRoundTrip ==
  [][(\/ /\ lastOp' = Op("import", "ok")
         /\ file[1].data = stringify(data)
      \/ /\ lastOp' = Op("loadState", "ok")
         /\ ~aliased
         /\ extState[1] = parse(stringify(data)))
     => /\ data'.cells = data.cells
        /\ data'.rooms = data.rooms
        /\ data'.meta.nextRoomId = data.meta.nextRoomId]_vars

\* the snapshot of a store with a room and an edited attribute was imported
\* back into that store
C12_Witness ==
  /\ lastOp = Op("import", "ok")
  /\ file # <<>>
  /\ file[1].data = stringify(data)
  /\ DOMAIN data.rooms # {}
  /\ Edited(data, EmptyMap) > 0

(* C13: after a successful import and after a confirmed wipe the staged set
   is empty, no cell is selected, the hovered key is cleared and the edit
   target is no longer a room. *)
C13_ImportWipeResetSelection ==
  [][lastOp' \in {Op("import", "ok"), Op("wipe", "ok")}
     => /\ staged' = {}
        /\ selectedCellKey' = NoKey
        /\ selectedRect' = NoKey
        /\ hoverKey' = NoKey
        /\ editTarget' # "room"]_vars

(* C14: the window always satisfies canvasW / maxZoom <= w <= canvasW,
   canvasH / maxZoom <= h <= canvasH, 0 <= x <= canvasW - w and
   0 <= y <= canvasH - h: initially and after every pan move and pinch
   move.  On a 1000 x 1000 canvas with maxZoom 8 a requested size of 50 is
   clamped to 125. *)
C14_WindowInBounds ==
  /\ RLe(RDiv(gridW, RInt(maxZoom)), view.w) /\ RLe(view.w, gridW)
  /\ RLe(RDiv(gridH, RInt(maxZoom)), view.h) /\ RLe(view.h, gridH)
  /\ RLe(RInt(0), view.x) /\ RLe(view.x, RSub(gridW, view.w))
  /\ RLe(RInt(0), view.y) /\ RLe(view.y, RSub(gridH, view.h))
  /\ clamp(RInt(50), RDiv(RInt(1000), RInt(maxZoom)), RInt(1000)) = RInt(125)

\* a pinch has zoomed in to the limit and a pan has pushed the window to the
\* right and bottom edge of the canvas
C14_Witness ==
  /\ view.w = vbMaxW
  /\ view.x = RSub(gridW, view.w)
  /\ view.y = RSub(gridH, view.h)
  /\ size(pointers) = 1
  /\ gesture.mode = "pan"

(* C15: clampView is idempotent: for every window with whole coordinates
   and sizes, inside or outside their ranges, negative ones included,
   clamping the clamped window changes nothing. *)
C15_ClampIdempotent == clampView(clampView(view)) = clampView(view)

\* updateView() has clamped a window whose size and origin were out of range
C15_Witness ==
  /\ lastOp.op = "updateView"
  /\ view = [x |-> RSub(gridW, vbMaxW), y |-> RInt(0), w |-> vbMaxW, h |-> gridH]

(* C16: whatever pointers go down, move, end or are cancelled, the gesture
   is idle exactly when no pointer is active, a pan exactly when one is, and
   a pinch when two are; the step that releases the last pointer leaves the
   gesture idle. *)
C16_GestureFollowsPointers ==
  /\ []((gesture = NoGesture <=> size(pointers) = 0)
        /\ (gesture.mode = "pan" <=> size(pointers) = 1)
        /\ (size(pointers) = 2 => gesture.mode = "pinch"))
  /\ [][size(pointers) > 0 /\ size(pointers') = 0 => gesture' = NoGesture]_vars

\* idle again after a pinch: every pointer was released
C16_Witness ==
  /\ size(pointers) = 0
  /\ gesture = NoGesture
  /\ blockClicksUntil = now + 400

(* C17: a pinch move that leaves the two pointers' midpoint where it was at
   the gesture start and changes their distance leaves the canvas point
   that was under the midpoint at the start within one pixel-equivalent
   (one unit-per-pixel of the new window) of the midpoint. *)
\* the steps the claim is about
AnchoredPinchStep ==
  /\ size(pointers) = 2 /\ pointers' # pointers
  /\ mid(values(pointers')[1], values(pointers')[2]) = gesture.startMid
  /\ dist(values(pointers')[1], values(pointers')[2]) # gesture.startDist

\* how far, in canvas units, the start point is from the point now under
\* the start midpoint in window v, on each axis
RAbs(q) == IF RLt(q, RInt(0)) THEN RSub(RInt(0), q) ELSE q
AnchorOffX(v) ==
  RAbs(RSub(RAdd(v.x, RMul(RSub(gesture.startMid.x, RInt(SurfaceRect.left)),
                           RDiv(v.w, RInt(SurfaceRect.width)))),
            gesture.startMidSvg.x))
AnchorOffY(v) ==
  RAbs(RSub(RAdd(v.y, RMul(RSub(gesture.startMid.y, RInt(SurfaceRect.top)),
                           RDiv(v.h, RInt(SurfaceRect.height)))),
            gesture.startMidSvg.y))
AnchorKept(v) ==
  /\ RLe(AnchorOffX(v), RDiv(v.w, RInt(SurfaceRect.width)))
  /\ RLe(AnchorOffY(v), RDiv(v.h, RInt(SurfaceRect.height)))

\* the origin that puts the start point under the midpoint in a window of
\* v's size lies inside the canvas
AnchorFits(v) ==
  LET ax == RSub(gesture.startMidSvg.x,
                 RMul(RSub(gesture.startMid.x, RInt(SurfaceRect.left)),
                      RDiv(v.w, RInt(SurfaceRect.width))))
      ay == RSub(gesture.startMidSvg.y,
                 RMul(RSub(gesture.startMid.y, RInt(SurfaceRect.top)),
                      RDiv(v.h, RInt(SurfaceRect.height))))
  IN /\ RLe(RInt(0), ax) /\ RLe(ax, RSub(gridW, v.w))
     /\ RLe(RInt(0), ay) /\ RLe(ay, RSub(gridH, v.h))

\* as stated: for every starting window and midpoint position
C17_AnchorAlways == [][AnchoredPinchStep => AnchorKept(view')]_vars

\* as the code has it: the point stays under the midpoint whenever the
\* window that keeps it there fits into the canvas; otherwise the window is
\* pushed back inside the canvas and the point moves away
C17_AnchorWhenFits ==
  [][AnchoredPinchStep /\ AnchorFits(view')
     => AnchorOffX(view') = RInt(0) /\ AnchorOffY(view') = RInt(0)]_vars

\* a zoom by two about the centre of the surface that kept the centre
C17_Witness ==
  /\ size(pointers) = 2
  /\ gesture.mode = "pinch"
  /\ gesture.startView.w = RDiv(gridW, RInt(2))
  /\ view.w = RDiv(gridW, RInt(4))
  /\ gesture.startDist = RInt(50)
  /\ mid(values(pointers)[1], values(pointers)[2]) = gesture.startMid
  /\ AnchorFits(view)
  /\ AnchorOffX(view) = RInt(0)

(* C18: a pointer event of the mouse (down, move, up or cancel) leaves the
   active-pointer map, the gesture descriptor with its start snapshot, and
   the window as they were, also while a touch gesture is in progress. *)
C18_MouseLeavesGestures ==
  [][lastOp' = [op |-> "pointer", out |-> "mouse"]
     => pointers' = pointers /\ gesture' = gesture /\ view' = view]_vars

(* C19: after every handler the user triggers, the persisted blob equals
   the in-memory store: the same cells mapping with the same keys, the same
   rooms mapping and the same room-id counter. *)
C19_PersistedEqualsStore ==
  [][/\ persisted' # <<>>
     /\ parse(persisted'[1]) = data']_vars

(* C20: createRoom on a staged set that is non-empty, contiguous and holds
   no grouped cell adds exactly one room, with id R<counter>, raises the
   counter by one, gives the room exactly the staged keys in sorted order,
   sets roomId to the new id on exactly those cells, leaves every other
   room and cell as it was, and leaves the staged set empty. *)
C20_CreateRoomEffect ==
  [][(/\ lastOp'.op = "createRoom"
      /\ staged # {}
      /\ OneComponent(staged)
      /\ \A k \in staged : ~Truthy(data.cells[k].roomId))
     => LET id == roomIdOf(data.meta.nextRoomId)
            members == data'.rooms[id].cells
        IN /\ lastOp'.out = "ok"
           /\ id \notin DOMAIN data.rooms
           /\ DOMAIN data'.rooms = (DOMAIN data.rooms) \cup {id}
           /\ data'.rooms[id].id = id
           /\ data'.meta.nextRoomId = data.meta.nextRoomId + 1
           /\ Range(members) = staged
           /\ Len(members) = Cardinality(staged)
           /\ \A i, j \in 1..Len(members) : i < j => StrLess(members[i], members[j])
           /\ DOMAIN data'.cells = DOMAIN data.cells
           /\ \A k \in DOMAIN data'.cells :
                IF k \in staged
                THEN data'.cells[k] = [data.cells[k] EXCEPT !.roomId = id]
                ELSE data'.cells[k] = data.cells[k]
           /\ \A r \in DOMAIN data.rooms : data'.rooms[r] = data.rooms[r]
           /\ staged' = {}]_vars

\* a second room, of two cells, has just been created
C20_Witness ==
  /\ lastOp = Op("createRoom", "ok")
  /\ staged = {}
  /\ Cardinality(DOMAIN data.rooms) = 2
  /\ roomIdOf(data.meta.nextRoomId - 1) \in DOMAIN data.rooms
  /\ Len(data.rooms[roomIdOf(data.meta.nextRoomId - 1)].cells) = 2

(* C21: a tap on a cell that arrives within the cooldown changes neither the
   selected cell, the edit target nor the staged set; the cooldown is
   started by a pan move that is more than 6 pixels from the gesture start
   (300 ms) and by every pinch move (400 ms); a pan move within 6 pixels of
   the gesture start starts none. *)
\* a "pointermove" that puts a pointer somewhere else
PointerMoved == DOMAIN pointers' = DOMAIN pointers /\ pointers' # pointers

\* the pixels between the only pointer and the start of its pan, squared
PanReachSq ==
  LET id == CHOOSE i \in DOMAIN pointers' : TRUE
  IN (pointers'[id].x - gesture.startPt.x) * (pointers'[id].x - gesture.startPt.x)
       + (pointers'[id].y - gesture.startPt.y) * (pointers'[id].y - gesture.startPt.y)

C21_CooldownBlocksTap ==
  /\ [][now < blockClicksUntil
        => /\ selectedCellKey' = selectedCellKey
           /\ editTarget' = editTarget
           /\ staged' = staged]_vars
  /\ [][PointerMoved /\ size(pointers) = 1 /\ PanReachSq > 36
        => blockClicksUntil' = now + 300]_vars
  /\ [][PointerMoved /\ size(pointers) = 1 /\ PanReachSq <= 36
        => blockClicksUntil' = blockClicksUntil]_vars
  /\ [][PointerMoved /\ size(pointers) = 2 => blockClicksUntil' = now + 400]_vars

\* a tap was ignored during a cooldown, after taps had selected and staged
C21_Witness ==
  /\ lastOp = [op |-> "click", out |-> "blocked"]
  /\ now < blockClicksUntil
  /\ selectedCellKey # NoKey
  /\ staged # {}

(* C22: pointer down, up and cancel events never change the window.  When a
   release leaves exactly one active pointer, the new pan snapshot is the
   current window and that pointer's last-known position, so that a move
   event of that pointer with zero displacement leaves the window as it is
   (no jump from pinch to pan). *)
C22_ReleaseKeepsWindow ==
  /\ [][DOMAIN pointers' # DOMAIN pointers \/ lastOp' = [op |-> "pointer", out |-> "mouse"]
        => view' = view]_vars
  /\ [][DOMAIN pointers' # DOMAIN pointers /\ DOMAIN pointers' \subseteq DOMAIN pointers
        => \A id \in PointerIds :
             DOMAIN pointers' = {id}
             => /\ gesture' = [mode |-> "pan", startView |-> view', startPt |-> pointers'[id]]
                /\ panWindow(gesture', view', pointers'[id]) = view']_vars

\* one finger of a pinch that had zoomed in was released: a pan from the
\* zoomed window
C22_Witness ==
  /\ size(pointers) = 1
  /\ gesture.mode = "pan"
  /\ gesture.startView = view
  /\ view.w # gridW
  /\ view.x # RInt(0)
  /\ blockClicksUntil = now + 400
  /\ \A id \in DOMAIN pointers : gesture.startPt = pointers[id]

(* C23: createRoom never overwrites an existing room: whatever operations
   came before, import and loadState of any blob that passes the format
   check included (cells and rooms present, meta possibly absent), the id a
   successful createRoom allocates is not yet a key of the rooms mapping. *)
C23_CreateRoomIdIsFresh ==
  [][lastOp' = Op("createRoom", "ok")
     => roomIdOf(data.meta.nextRoomId) \notin DOMAIN data.rooms]_vars

\* the midpoints a snapshot taken from two different fingers of ids can have
MidsOf(ids) ==
  UNION {{mid([x |-> a[1], y |-> a[2]], [x |-> b[1], y |-> b[2]]) :
            a \in spotsOf(i), b \in spotsOf(j)} :
         <<i, j>> \in {ij \in ids \X ids : ij[1] # ij[2]}}

(* C24: whenever a pinch move is processed with exactly two active
   pointers, the start snapshot of the gesture (distance, midpoint and its
   canvas coordinates) was taken from those same two pointers, in every
   order of events: also when a third pointer goes down during a pinch and
   one of the first two is released.  Every finger has spots of its own,
   so the snapshot's midpoint tells which two fingers it was taken from. *)
C24_PinchSnapshotOfItsPointers ==
  [][/\ DOMAIN pointers' = DOMAIN pointers
     /\ pointers' # pointers
     /\ size(pointers) = 2
     => /\ gesture.mode = "pinch"
        /\ gesture.startMid \in MidsOf(DOMAIN pointers)]_vars

(* C25: a createRoom call that fails (the staged cells are not contiguous,
   or one of them already belongs to a room) or does nothing (the stage is
   empty) leaves the staged set and the room-id counter as they were, so
   no room id is skipped: the set of ids given out so far is unchanged. *)
C25_FailedCreateKeepsStageAndCounter ==
  [][lastOp' = Op("createRoom", "failed") =>
       /\ staged' = staged
       /\ data'.meta.nextRoomId = data.meta.nextRoomId
       /\ issued' = issued]_vars

\* C25 witness: createRoom has just refused the two outer cells of the row,
\* staged around a room made earlier
C25_Witness ==
  /\ lastOp = Op("createRoom", "failed")
  /\ staged = {keyString(0, 0), keyString(2, 0)}
  /\ data.meta.nextRoomId = 2
  /\ issued = {1}

====
